---- MODULE Spec2Model ----
(***************************************************************************)
(* solbuild: the build orchestrator Package.Build (src/builder/build.go)   *)
(* with its reaper and interrupt hook, FetchSources, BindSources and       *)
(* CopyAssets.                                                             *)
(*                                                                         *)
(* The build thread is one process whose position is pc; each blocking     *)
(* call of Build is one action.  The interrupt hook installed by           *)
(* HandleInterrupt is a second process (a goroutine): it takes the signal, *)
(* runs the reaper and terminates the process, interleaved with the build  *)
(* thread.                                                                 *)
(*                                                                         *)
(* Spec is Package.Build called on its own.  SpecCmd is the build and      *)
(* update commands (src/solbuild/cmd), SpecImg is NewBackingImage applied  *)
(* to two profile names.                                                   *)
(***************************************************************************)
EXTENDS Integers, Sequences, FiniteSets, TLC

\* ------------------------------------------------------------------ bounds
\* Largest number of Source entries of a package descriptor.
MaxSources == 2

\* --------------------------------------------------------------- constants
PackageTypeXML == "xml"
PackageTypeYpkg == "ypkg"
PackageTypes == {PackageTypeXML, PackageTypeYpkg}

\* State of the cache file of one Source, relative to its expected hash.
CacheStates == {"absent", "valid", "corrupt"}
\* What one Source.Fetch call can do: write matching content, fail with an
\* error, or deliver content that does not match the expected hash.
FetchOutcomes == {"ok", "error", "mismatch"}
\* What can go wrong for one Source in BindSources.
BindOutcomes == {"ok", "mkdir", "touch", "mount"}

NoErr == "nil"
NotYetImplemented == "Not yet implemented"

VARIABLES
    pkgType,         \* p.Type
    cache,           \* cache[i]: cache file of p.Sources[i]
    cache0,          \* the cache as it was when Build was entered
    pc,              \* position of the build thread inside Build
    err,             \* the error Build returns ("none" until it is set)
    failed,          \* first operation of the attempt that failed
    trace,           \* the build steps started so far, in order
    overlayMounted,  \* the overlay mount is active
    dirs,            \* ephemeral upper/work/mount-point directories exist
    binds,           \* indices of the Sources bind-mounted in the sandbox
    sourceDirExists, \* PathExists(p.GetSourceDir(o))
    dbus,            \* the in-sandbox service bus is running
    network,         \* "full", "none" or "loopback"
    warned,          \* the legacy-format warning was logged
    copied,          \* asset paths CopyAssets has copied, in order
    visited,         \* Sources FetchSources has visited, in order
    fetched,         \* Sources on which Fetch was called, in order
    fetchFailed,     \* Sources whose Fetch returned an error
    bindFail,        \* which operation of BindSources failed
    reaperRuns,      \* number of runs of the reaper body
    hookPc,          \* position of the interrupt hook
    hashUsed,        \* the checksum fields FetchSources / BindSources read
    copyTried,       \* asset paths CopyAssets has called CopyAll on
    \* the build and update commands (src/solbuild/cmd)
    command,         \* the command that is run: "build" or "update"
    profile,         \* the package-level variable behind the -p flag
    args,            \* the positional arguments
    likelyArg,       \* what FindLikelyArg() finds in the working directory
    installedImages, \* profiles whose .img file exists
    euid,            \* os.Geteuid()
    parseResult,     \* what builder.NewPackage gives for the package file
    updateResult,    \* whether bk.Update() succeeds
    cmdPc,           \* "idle", "start" or "done"
    exitCode,        \* what the command reports to its caller
    stderr,          \* the messages written to os.Stderr, in order
    cmdLog,          \* the log messages of the command, in order
    updateCalled,    \* bk.Update() was called
    buildCalled,     \* pkg.Build(bk) was called
    \* NewBackingImage
    name1, name2,    \* two profile names
    img1, img2       \* the BackingImages constructed from them

vars == <<pkgType, cache, cache0, pc, err, failed, trace, overlayMounted,
          dirs, binds, sourceDirExists, dbus, network, warned, copied,
          visited, fetched, fetchFailed, bindFail, reaperRuns, hookPc,
          hashUsed, copyTried, command, profile, args, likelyArg, installedImages, euid,
          parseResult, updateResult, cmdPc, exitCode, stderr, cmdLog,
          updateCalled, buildCalled, name1, name2, img1, img2>>

buildVars == <<pc, err, failed, trace>>
overlayVars == <<overlayMounted, dirs, binds, sourceDirExists>>
fetchVars == <<cache, visited, fetched, fetchFailed>>
cmdIn == <<command, args, likelyArg, installedImages, euid, parseResult,
           updateResult>>
cmdOut == <<profile, cmdPc, exitCode, stderr, cmdLog, updateCalled,
            buildCalled>>
cmdVars == <<cmdIn, cmdOut>>
imgVars == <<name1, name2, img1, img2>>
\* What Package.Build leaves alone.
otherVars == <<cmdVars, imgVars>>

\* ----------------------------------------------------------------- helpers
Range(s) == {s[i] : i \in DOMAIN s}
InTrace(step) == step \in Range(trace)
IsPrefix(s, t) == Len(s) <= Len(t) /\ SubSeq(t, 1, Len(s)) = s
Last(s) == s[Len(s)]

\* All sequences over S of length 0..n.
SeqsUpTo(S, n) == UNION {[1..k -> S] : k \in 0..n}

\* ------------------------------------------------------------- source cache
\* Source.IsFetched(expHash): a local file exists and its hash is expHash.
IsFetched(c) == c = "valid"

\* Source.Fetch with outcome o on a cache file in state c.
Fetch(c, o) ==
    CASE o = "ok" -> "valid"
      [] o = "mismatch" -> "corrupt"
      [] OTHER -> c

\* The hash of a Source that FetchSources and BindSources use.
ExpHash(t) == IF t = PackageTypeXML THEN "SHA1Sum" ELSE "SHA256Sum"


\* FetchSources' loop that gives up at the first Fetch error.
RECURSIVE FetchLoop_StopOnError(_, _, _, _, _, _)
FetchLoop_StopOnError(i, c, outs, v, f, e) ==
    IF i > Len(c) \/ e # {}
    THEN [cache |-> c, visited |-> v, fetched |-> f, fetchFailed |-> e,
          err |-> e # {}]
    ELSE IF IsFetched(c[i])
    THEN FetchLoop_StopOnError(i + 1, c, outs, Append(v, i), f, e)
    ELSE FetchLoop_StopOnError(i + 1, [c EXCEPT ![i] = Fetch(c[i], outs[i])],
                  outs, Append(v, i), Append(f, i),
                  IF outs[i] = "error" THEN e \cup {i} ELSE e)

\* FetchSources' loop without the `if source.IsFetched(expHash)` shortcut.
RECURSIVE FetchLoop_AlwaysFetch(_, _, _, _, _, _)
FetchLoop_AlwaysFetch(i, c, outs, v, f, e) ==
    IF i > Len(c)
    THEN [cache |-> c, visited |-> v, fetched |-> f, fetchFailed |-> e,
          err |-> FALSE]
    ELSE FetchLoop_AlwaysFetch(i + 1,
                  [c EXCEPT ![i] = Fetch(c[i], outs[i])],
                  outs, Append(v, i), Append(f, i),
                  IF outs[i] = "error" THEN e \cup {i} ELSE e)

\* Package.FetchSources: the loop from Source i on.  c is the cache, outs the
\* outcome each Fetch would have, v/f/e the Sources visited, fetched and
\* failed so far.  The result's err is the function's return value.
RECURSIVE FetchLoop(_, _, _, _, _, _)
FetchLoop(i, c, outs, v, f, e) ==
    IF i > Len(c)
    THEN [cache |-> c, visited |-> v, fetched |-> f, fetchFailed |-> e,
          err |-> FALSE]
    ELSE IF IsFetched(c[i])
    THEN FetchLoop(i + 1, c, outs, Append(v, i), f, e)
    ELSE FetchLoop(i + 1, [c EXCEPT ![i] = Fetch(c[i], outs[i])],
                  outs, Append(v, i), Append(f, i),
                  IF outs[i] = "error" THEN e \cup {i} ELSE e)

\* BindSources reading the other checksum field.
BindExpHash_Swapped(t) == IF t = PackageTypeXML THEN "SHA256Sum" ELSE "SHA1Sum"

\* The hash of a Source whose cache path BindSources binds.
BindExpHash(t) == IF t = PackageTypeXML THEN "SHA1Sum" ELSE "SHA256Sum"

\* Package.BindSources: the loop from Source i on.  o[i] names the operation
\* that fails for Source i, sdir is PathExists(sourceDir), b the Sources
\* bound so far.  A bind mount of a file that does not exist fails.
RECURSIVE BindLoop(_, _, _, _, _)
BindLoop(i, c, o, sdir, b) ==
    IF i > Len(c)
    THEN [binds |-> b, sdir |-> sdir, err |-> FALSE, fail |-> "none"]
    ELSE IF ~sdir /\ o[i] = "mkdir"
    THEN [binds |-> b, sdir |-> FALSE, err |-> TRUE, fail |-> "mkdir"]
    ELSE IF o[i] = "touch"
    THEN [binds |-> b, sdir |-> TRUE, err |-> FALSE, fail |-> "touch"]
    ELSE IF o[i] = "mount" \/ c[i] = "absent"
    THEN [binds |-> b, sdir |-> TRUE, err |-> TRUE, fail |-> "mount"]
    ELSE BindLoop(i + 1, c, o, TRUE, b \cup {i})

\* Package.CopyAssets: the list of paths to copy.
CopyPaths(t) ==
    <<"package", "files", "comar", "component.xml">> \o
    (IF t = PackageTypeXML THEN <<"actions.py">> ELSE <<>>)

\* CopyAssets' loop going on after a failed copy.
RECURSIVE CopyLoop_ContinueOnError(_, _, _, _, _)
CopyLoop_ContinueOnError(paths, oks, i, done, tried) ==
    IF i > Len(paths)
    THEN [copied |-> done, tried |-> tried, err |-> Len(done) < Len(paths)]
    ELSE CopyLoop_ContinueOnError(paths, oks, i + 1,
             IF oks[i] THEN Append(done, paths[i]) ELSE done,
             Append(tried, paths[i]))

\* Package.CopyAssets: the loop over copyPaths from path i on; done are the
\* paths copied, tried the paths CopyAll was called on.
RECURSIVE CopyLoop(_, _, _, _, _)
CopyLoop(paths, oks, i, done, tried) ==
    IF i > Len(paths)
    THEN [copied |-> done, tried |-> tried, err |-> FALSE]
    ELSE IF ~oks[i]
    THEN [copied |-> done, tried |-> Append(tried, paths[i]), err |-> TRUE]
    ELSE CopyLoop(paths, oks, i + 1, Append(done, paths[i]),
                  Append(tried, paths[i]))

\* ------------------------------------------------------------ BackingImage
\* Strings are sequences of tokens; no token is the beginning of another,
\* so two token sequences are equal exactly when the strings are.
MaxNameLen == 3
Alphabet == {"a", "/", ".", "img"}
Names == SeqsUpTo(Alphabet, MaxNameLen)

ImagesDir == <<"/", "var", "/", "lib", "/", "solbuild", "/", "images">>
ImageSuffix == <<".", "img">>
ImageCompressedSuffix == <<".", "img", ".", "xz">>
ImageBaseURI == <<"https://solus-project.com/image_root">>
ImageRootsDir == <<"/", "var", "/", "lib", "/", "solbuild", "/", "roots">>

\* The elements of path s between its separators, from token i on; cur is
\* the element being read, acc the elements read.
RECURSIVE SplitPath(_, _, _, _)
SplitPath(s, i, cur, acc) ==
    IF i > Len(s) THEN Append(acc, cur)
    ELSE IF s[i] = "/" THEN SplitPath(s, i + 1, <<>>, Append(acc, cur))
    ELSE SplitPath(s, i + 1, Append(cur, s[i]), acc)

\* filepath.Clean on the elements of a rooted path: drop empty and "."
\* elements, let ".." remove the element before it (at the root, itself).
RECURSIVE CleanElems(_, _, _)
CleanElems(elems, i, stack) ==
    IF i > Len(elems) THEN stack
    ELSE IF elems[i] = <<>> \/ elems[i] = <<".">>
    THEN CleanElems(elems, i + 1, stack)
    ELSE IF elems[i] = <<".", ".">>
    THEN CleanElems(elems, i + 1,
                    IF stack = <<>> THEN stack
                    ELSE SubSeq(stack, 1, Len(stack) - 1))
    ELSE CleanElems(elems, i + 1, Append(stack, elems[i]))

\* The rooted path made of the elements from i on.
RECURSIVE JoinElems(_, _)
JoinElems(elems, i) ==
    IF i > Len(elems) THEN <<>>
    ELSE <<"/">> \o elems[i] \o JoinElems(elems, i + 1)

\* filepath.Clean of a rooted path.
Clean(s) ==
    LET elems == CleanElems(SplitPath(s, 1, <<>>, <<>>), 1, <<>>)
    IN  IF elems = <<>> THEN <<"/">> ELSE JoinElems(elems, 1)

\* filepath.Join(dir, elem): empty elements are ignored, the rest is joined
\* with a separator and cleaned.
Join(dir, elem) == Clean(IF elem = <<>> THEN dir ELSE dir \o <<"/">> \o elem)

\* The zero BackingImage.
NoImage ==
    [Name |-> <<>>, ImagePath |-> <<>>, ImagePathXZ |-> <<>>,
     ImageURI |-> <<>>, RootDir |-> <<>>]

\* NewBackingImage with the update root placed in the images directory.
NewBackingImage_RootInImages(name) ==
    [Name |-> name,
     ImagePath |-> Join(ImagesDir, name \o ImageSuffix),
     ImagePathXZ |-> Join(ImagesDir, name \o ImageCompressedSuffix),
     ImageURI |-> ImageBaseURI \o <<"/">> \o name \o ImageCompressedSuffix,
     RootDir |-> Join(ImagesDir, name)]

\* NewBackingImage
NewBackingImage(name) ==
    [Name |-> name,
     ImagePath |-> Join(ImagesDir, name \o ImageSuffix),
     ImagePathXZ |-> Join(ImagesDir, name \o ImageCompressedSuffix),
     ImageURI |-> ImageBaseURI \o <<"/">> \o name \o ImageCompressedSuffix,
     RootDir |-> Join(ImageRootsDir, name)]

\* ----------------------------------------------------------- idle components
\* No command is being run.
CmdIdle ==
    /\ command = "none"
    /\ profile = "main-x86_64"
    /\ args = <<>>
    /\ likelyArg = ""
    /\ installedImages = {}
    /\ euid = 0
    /\ parseResult = "error"
    /\ updateResult = TRUE
    /\ cmdPc = "idle"
    /\ exitCode = "none"
    /\ stderr = <<>>
    /\ cmdLog = <<>>
    /\ updateCalled = FALSE
    /\ buildCalled = FALSE

\* No BackingImage is being constructed.
ImgIdle ==
    /\ name1 = <<>>
    /\ name2 = <<>>
    /\ img1 = NoImage
    /\ img2 = NoImage

\* Package.Build has not been called.
BuildIdle ==
    /\ pkgType = PackageTypeYpkg
    /\ cache = <<>>
    /\ cache0 = <<>>
    /\ pc = "idle"
    /\ err = "none"
    /\ failed = "none"
    /\ trace = <<>>
    /\ overlayMounted = FALSE
    /\ dirs = FALSE
    /\ binds = {}
    /\ sourceDirExists = FALSE
    /\ dbus = FALSE
    /\ network = "full"
    /\ warned = FALSE
    /\ copied = <<>>
    /\ visited = <<>>
    /\ fetched = <<>>
    /\ fetchFailed = {}
    /\ bindFail = "none"
    /\ reaperRuns = 0
    /\ hookPc = "off"
    /\ hashUsed = [fetch |-> {}, bind |-> {}]
    /\ copyTried = <<>>

\* -------------------------------------------------------------------- Init
Init ==
    /\ pkgType \in PackageTypes
    /\ cache \in SeqsUpTo(CacheStates, MaxSources)
    /\ cache0 = cache
    /\ pc = "CleanExisting"
    /\ err = "none"
    /\ failed = "none"
    /\ trace = <<>>
    \* residue of an earlier attempt that was killed before it cleaned up
    /\ overlayMounted \in BOOLEAN
    /\ dirs \in BOOLEAN
    /\ overlayMounted => dirs
    /\ binds = {}
    /\ sourceDirExists = FALSE
    /\ dbus = FALSE
    /\ network = "full"
    /\ warned = FALSE
    /\ copied = <<>>
    /\ visited = <<>>
    /\ fetched = <<>>
    /\ fetchFailed = {}
    /\ bindFail = "none"
    /\ reaperRuns = 0
    /\ hookPc = "off"
    /\ hashUsed = [fetch |-> {}, bind |-> {}]
    /\ copyTried = <<>>
    /\ CmdIdle
    /\ ImgIdle

\* ------------------------------------------------------------ build thread
\* The build thread runs until the interrupt hook has ended the process.
Running == hookPc # "exited"

\* One step of Build: `if err := step(); err != nil { return err }`.
\* The deferred reaper runs before Build returns (pc = "defer").
Step_IgnoreError(name, next, ok) ==
    /\ trace' = Append(trace, name)
    /\ pc' = next
    /\ failed' = IF ok \/ failed # "none" THEN failed ELSE name
    /\ UNCHANGED err

Step(name, next, ok) ==
    /\ trace' = Append(trace, name)
    /\ IF ok
       THEN pc' = next /\ UNCHANGED <<err, failed>>
       ELSE /\ pc' = "defer"
            /\ err' = name
            /\ failed' = IF failed = "none" THEN name ELSE failed

\* The reaper body (GrimReaper's closure): stop the service bus, unmount the
\* binds and the overlay, remove the ephemeral directories.
ReaperBody ==
    /\ dbus' = FALSE
    /\ binds' = {}
    /\ overlayMounted' = FALSE
    /\ dirs' = FALSE
    /\ sourceDirExists' = FALSE
    /\ reaperRuns' = reaperRuns + 1

\* CleanExisting followed by no registration of the reaper.
CleanExisting_NoRegister ==
    /\ Running /\ pc = "CleanExisting"
    /\ \E ok \in BOOLEAN :
        /\ trace' = Append(trace, "CleanExisting")
        /\ IF ok
           THEN /\ overlayMounted' = FALSE /\ dirs' = FALSE
                /\ pc' = "ActivateRoot"
                /\ hookPc' = hookPc
                /\ UNCHANGED <<err, failed>>
           ELSE /\ pc' = "returned"
                /\ err' = "CleanExisting"
                /\ failed' = "CleanExisting"
                /\ UNCHANGED <<overlayMounted, dirs, hookPc>>
    /\ UNCHANGED <<otherVars, hashUsed, copyTried, pkgType, cache0,
                   fetchVars, binds, sourceDirExists, dbus,
                   network, warned, copied, bindFail, reaperRuns>>

\* overlay.CleanExisting, then GrimReaper, defer reaper(), HandleInterrupt.
\* On failure Build returns before the reaper exists.
CleanExisting ==
    /\ Running /\ pc = "CleanExisting"
    /\ \E ok \in BOOLEAN :
        /\ trace' = Append(trace, "CleanExisting")
        /\ IF ok
           THEN /\ overlayMounted' = FALSE /\ dirs' = FALSE
                /\ pc' = "ActivateRoot"
                /\ hookPc' = "armed"
                /\ UNCHANGED <<err, failed>>
           ELSE /\ pc' = "returned"
                /\ err' = "CleanExisting"
                /\ failed' = "CleanExisting"
                /\ UNCHANGED <<overlayMounted, dirs, hookPc>>
    /\ UNCHANGED <<otherVars, hashUsed, copyTried, pkgType, cache0,
                   fetchVars, binds, sourceDirExists, dbus,
                   network, warned, copied, bindFail, reaperRuns>>

\* p.ActivateRoot: compose the overlay.  A failed compose can leave the
\* directories, and the mount, behind.
ActivateRoot ==
    /\ Running /\ pc = "ActivateRoot"
    /\ \E ok \in BOOLEAN, m \in BOOLEAN, d \in BOOLEAN, s \in BOOLEAN :
        /\ m => d
        /\ ok => (m /\ d)
        /\ s => m
        /\ Step("ActivateRoot", "CopyAssets", ok)
        /\ overlayMounted' = m
        /\ dirs' = d
        /\ sourceDirExists' = s
    /\ UNCHANGED <<otherVars, hashUsed, copyTried, pkgType, cache0,
                   fetchVars, binds, dbus, network, warned,
                   copied, bindFail, reaperRuns, hookPc>>

\* p.CopyAssets, and Build's check of its return value.  absOk is whether
\* filepath.Abs succeeds, oks[i] whether CopyAll succeeds on the i-th path.
CopyAssets ==
    /\ Running /\ pc = "CopyAssets"
    /\ \E absOk \in BOOLEAN,
          oks \in [1..Len(CopyPaths(pkgType)) -> BOOLEAN] :
        LET r == IF absOk
                 THEN CopyLoop(CopyPaths(pkgType), oks, 1, <<>>, <<>>)
                 ELSE [copied |-> <<>>, tried |-> <<>>, err |-> TRUE]
        IN  /\ copied' = r.copied
            /\ copyTried' = r.tried
            /\ Step("CopyAssets", "FetchSources", ~r.err)
    /\ UNCHANGED <<otherVars, hashUsed, pkgType, cache0,
                   fetchVars, overlayVars, dbus, network,
                   warned, bindFail, reaperRuns, hookPc>>

\* p.FetchSources, and Build's check of its return value.
FetchSources ==
    /\ Running /\ pc = "FetchSources"
    /\ \E outs \in [1..Len(cache) -> FetchOutcomes] :
        LET r == FetchLoop(1, cache, outs, <<>>, <<>>, {}) IN
        /\ cache' = r.cache
        /\ visited' = r.visited
        /\ fetched' = r.fetched
        /\ fetchFailed' = r.fetchFailed
        /\ Step("FetchSources", "Init", ~r.err)
    /\ hashUsed' = [hashUsed EXCEPT
                       !.fetch = {ExpHash(pkgType) : i \in DOMAIN cache}]
    /\ UNCHANGED <<otherVars, copyTried, pkgType, cache0,
                   overlayVars, dbus, network, warned,
                   copied, bindFail, reaperRuns, hookPc>>


\* pman.Init
PmanInit ==
    /\ Running /\ pc = "Init"
    /\ \E ok \in BOOLEAN : Step("Init", "StartDBUS", ok)
    /\ UNCHANGED <<otherVars, hashUsed, copyTried, pkgType, cache0,
                   fetchVars, overlayVars, dbus, network,
                   warned, copied, bindFail, reaperRuns, hookPc>>

\* pman.StartDBUS
StartDBUS ==
    /\ Running /\ pc = "StartDBUS"
    /\ \E ok \in BOOLEAN :
        /\ Step("StartDBUS", "Upgrade", ok)
        /\ dbus' = (ok \/ dbus)
    /\ UNCHANGED <<otherVars, hashUsed, copyTried, pkgType, cache0,
                   fetchVars, overlayVars, network, warned,
                   copied, bindFail, reaperRuns, hookPc>>

\* pman.Upgrade
Upgrade ==
    /\ Running /\ pc = "Upgrade"
    /\ \E ok \in BOOLEAN : Step("Upgrade", "InstallComponent", ok)
    /\ UNCHANGED <<otherVars, hashUsed, copyTried, pkgType, cache0,
                   fetchVars, overlayVars, dbus, network,
                   warned, copied, bindFail, reaperRuns, hookPc>>

\* The format dispatch with the two branches swapped.
NextAfterDevel_Swapped(t) ==
    IF t = PackageTypeYpkg THEN "StopDBUSLegacy" ELSE "InstallBuildDependencies"

\* `if p.Type == PackageTypeYpkg { ... } else { ... }`: where Build goes
\* after system.devel is installed.
NextAfterDevel(t) ==
    IF t = PackageTypeYpkg THEN "InstallBuildDependencies" ELSE "StopDBUSLegacy"

\* pman.InstallComponent("system.devel")
InstallComponent ==
    /\ Running /\ pc = "InstallComponent"
    /\ \E ok \in BOOLEAN :
        Step("InstallComponent", NextAfterDevel(pkgType), ok)
    /\ UNCHANGED <<otherVars, hashUsed, copyTried, pkgType, cache0,
                   fetchVars, overlayVars, dbus, network,
                   warned, copied, bindFail, reaperRuns, hookPc>>

\* commands.ChrootExec(ypkg-install-deps)
InstallBuildDependencies ==
    /\ Running /\ pc = "InstallBuildDependencies"
    /\ \E ok \in BOOLEAN : Step("InstallBuildDependencies", "StopDBUS", ok)
    /\ UNCHANGED <<otherVars, hashUsed, copyTried, pkgType, cache0,
                   fetchVars, overlayVars, dbus, network,
                   warned, copied, bindFail, reaperRuns, hookPc>>

\* pman.StopDBUS in the ypkg branch
StopDBUS ==
    /\ Running /\ pc = "StopDBUS"
    /\ \E ok \in BOOLEAN :
        /\ Step("StopDBUS", "FixOwnership", ok)
        /\ dbus' = (dbus /\ ~ok)
    /\ UNCHANGED <<otherVars, hashUsed, copyTried, pkgType, cache0,
                   fetchVars, overlayVars, network, warned,
                   copied, bindFail, reaperRuns, hookPc>>

\* commands.ChrootExec(chown -R build:build /home/build)
FixOwnership ==
    /\ Running /\ pc = "FixOwnership"
    /\ \E ok \in BOOLEAN : Step("FixOwnership", "DropNetworking", ok)
    /\ UNCHANGED <<otherVars, hashUsed, copyTried, pkgType, cache0,
                   fetchVars, overlayVars, dbus, network,
                   warned, copied, bindFail, reaperRuns, hookPc>>

\* DropNetworking: on success the process has no network at all.
DropNetworking ==
    /\ Running /\ pc = "DropNetworking"
    /\ \E ok \in BOOLEAN :
        /\ Step("DropNetworking", "ConfigureNetworking", ok)
        /\ network' = IF ok THEN "none" ELSE network
    /\ UNCHANGED <<otherVars, hashUsed, copyTried, pkgType, cache0,
                   fetchVars, overlayVars, dbus, warned,
                   copied, bindFail, reaperRuns, hookPc>>

\* overlay.ConfigureNetworking: bring up the loopback device only; it takes
\* no connectivity away.
ConfigureNetworking ==
    /\ Running /\ pc = "ConfigureNetworking"
    /\ \E ok \in BOOLEAN :
        /\ Step("ConfigureNetworking", "BindSources", ok)
        /\ network' = IF ok /\ network = "none" THEN "loopback" ELSE network
    /\ UNCHANGED <<otherVars, hashUsed, copyTried, pkgType, cache0,
                   fetchVars, overlayVars, dbus, warned,
                   copied, bindFail, reaperRuns, hookPc>>

\* p.BindSources, and Build's check of its return value.  A failure of
\* TouchFile makes BindSources return nil, so Build goes on.
BindSources ==
    /\ Running /\ pc = "BindSources"
    /\ \E o \in [1..Len(cache) -> BindOutcomes] :
        LET r == BindLoop(1, cache, o, sourceDirExists, binds) IN
        /\ binds' = r.binds
        /\ sourceDirExists' = r.sdir
        /\ bindFail' = r.fail
        /\ trace' = Append(trace, "BindSources")
        /\ failed' = IF r.fail # "none" /\ failed = "none"
                     THEN "BindSources" ELSE failed
        /\ IF r.err
           THEN pc' = "defer" /\ err' = "BindSources"
           ELSE pc' = "RunBuild" /\ UNCHANGED err
    /\ hashUsed' = [hashUsed EXCEPT
                       !.bind = {BindExpHash(pkgType) : i \in DOMAIN cache}]
    /\ UNCHANGED <<otherVars, copyTried, pkgType, cache0,
                   fetchVars, overlayMounted, dirs, dbus,
                   network, warned, copied, reaperRuns, hookPc>>

\* commands.ChrootExec(su - build -- fakeroot ypkg-build)
RunBuild ==
    /\ Running /\ pc = "RunBuild"
    /\ \E ok \in BOOLEAN : Step("RunBuild", "Collect", ok)
    /\ UNCHANGED <<otherVars, hashUsed, copyTried, pkgType, cache0,
                   fetchVars, overlayVars, dbus, network,
                   warned, copied, bindFail, reaperRuns, hookPc>>

\* The legacy branch: log the warning, then pman.StopDBUS.
StopDBUSLegacy ==
    /\ Running /\ pc = "StopDBUSLegacy"
    /\ warned' = TRUE
    /\ \E ok \in BOOLEAN :
        /\ Step("StopDBUS", "Collect", ok)
        /\ dbus' = (dbus /\ ~ok)
    /\ UNCHANGED <<otherVars, hashUsed, copyTried, pkgType, cache0,
                   fetchVars, overlayVars, network, copied,
                   bindFail, reaperRuns, hookPc>>

\* `return errors.New("Not yet implemented")`: the end of Build.
CollectArtifacts ==
    /\ Running /\ pc = "Collect"
    /\ pc' = "defer"
    /\ err' = NotYetImplemented
    /\ UNCHANGED <<otherVars, hashUsed, copyTried, pkgType, cache0,
                   failed, trace, fetchVars, overlayVars,
                   dbus, network, warned, copied, bindFail, reaperRuns,
                   hookPc>>

\* Build returning without its deferred call.
RunDeferred_NoDefer ==
    /\ Running /\ pc = "defer"
    /\ pc' = "returned"
    /\ UNCHANGED <<otherVars, hashUsed, copyTried, pkgType, cache0,
                   err, failed, trace, fetchVars,
                   overlayVars, dbus, reaperRuns,
                   network, warned, copied, bindFail, hookPc>>

\* `defer reaper()`: the reaper runs when Build returns; its result, if any,
\* does not reach Build's return value.
RunDeferred ==
    /\ Running /\ pc = "defer"
    /\ ReaperBody
    /\ pc' = "returned"
    /\ UNCHANGED <<otherVars, hashUsed, copyTried, pkgType, cache0,
                   err, failed, trace, fetchVars, network,
                   warned, copied, bindFail, hookPc>>

\* ---------------------------------------------------------- interrupt hook
\* An interruption signal reaches the process while Build is executing.
Interrupt ==
    /\ hookPc = "armed" /\ pc # "returned"
    /\ hookPc' = "signalled"
    /\ UNCHANGED <<otherVars, hashUsed, copyTried, pkgType, cache0,
                   buildVars, fetchVars, overlayVars, dbus,
                   network, warned, copied, bindFail, reaperRuns>>

\* The hook calls the reaper it was given.
HookReaper ==
    /\ hookPc = "signalled"
    /\ ReaperBody
    /\ hookPc' = "reaped"
    /\ UNCHANGED <<otherVars, hashUsed, copyTried, pkgType, cache0,
                   buildVars, fetchVars, network, warned,
                   copied, bindFail>>

\* The hook terminates the process; the build thread stops where it is.
HookExit ==
    /\ hookPc = "reaped"
    /\ hookPc' = "exited"
    /\ UNCHANGED <<otherVars, hashUsed, copyTried, pkgType, cache0,
                   buildVars, fetchVars, overlayVars, dbus,
                   network, warned, copied, bindFail, reaperRuns>>

\* -------------------------------------------------------------------- Next
Next ==
    \/ CleanExisting
    \/ ActivateRoot
    \/ CopyAssets
    \/ FetchSources
    \/ PmanInit
    \/ StartDBUS
    \/ Upgrade
    \/ InstallComponent
    \/ InstallBuildDependencies
    \/ StopDBUS
    \/ FixOwnership
    \/ DropNetworking
    \/ ConfigureNetworking
    \/ BindSources
    \/ RunBuild
    \/ StopDBUSLegacy
    \/ CollectArtifacts
    \/ RunDeferred
    \/ Interrupt
    \/ HookReaper
    \/ HookExit

Spec == Init /\ [][Next]_vars

TypeOK ==
    /\ pkgType \in PackageTypes
    /\ cache \in SeqsUpTo(CacheStates, MaxSources)
    /\ binds \subseteq DOMAIN cache
    /\ network \in {"full", "none", "loopback"}
    /\ hookPc \in {"off", "armed", "signalled", "reaped", "exited"}
    /\ reaperRuns \in 0..2


\* ------------------------------------------------------------------ claims
\* The steps every build starts with, and the steps of the ypkg branch.
PrefixSteps ==
    <<"CleanExisting", "ActivateRoot", "CopyAssets", "FetchSources", "Init",
      "StartDBUS", "Upgrade", "InstallComponent">>
ModernSteps ==
    <<"InstallBuildDependencies", "StopDBUS", "FixOwnership",
      "DropNetworking", "ConfigureNetworking", "BindSources", "RunBuild">>
ModernOnly == Range(ModernSteps) \ {"StopDBUS"}
Returned == pc = "returned"
NothingLeft == ~overlayMounted /\ binds = {} /\ ~dirs
IndexOf(step) == CHOOSE i \in DOMAIN trace : trace[i] = step
NotCachedAtStart(i) == ~IsFetched(cache0[i])

\* C1 (as stated): whichever step of Build fails, CleanExisting included,
\* once Build has returned no overlay or bind mount is active and no
\* ephemeral directory remains.
C1_ReaperGuaranteeEveryStep == Returned => NothingLeft

\* C1 (amended): if a step after CleanExisting fails, or none does, then once
\* Build has returned no overlay or bind mount is active and no ephemeral
\* directory remains.
C1_ReaperGuarantee == (Returned /\ err # "CleanExisting") => NothingLeft

\* C1 witness: Build has returned the error of RunBuild, which ran with the
\* overlay mounted and a Source bound.
C1_Witness ==
    /\ Returned /\ err = "RunBuild" /\ bindFail = "none"
    /\ Len(cache) > 0 /\ reaperRuns = 1

\* C2: once the reaper is bound to the attempt, it has run exactly once when
\* Build has returned or the interrupt hook has ended the process.
C2_ReaperExactlyOnce ==
    (hookPc # "off" /\ (Returned \/ hookPc = "exited")) => reaperRuns = 1

\* C3: after the interrupt hook has run the reaper, the build thread starts
\* no further build step.
C3_NoStepAfterInterrupt == [][hookPc = "reaped" => trace' = trace]_vars

\* C4: Build returns no error when no step failed, and an error only when
\* some step failed.
C4_TerminalOutcomes == (Returned /\ failed = "none") => err = NoErr

\* C5: each step runs at most once, and when an operation of the attempt
\* fails, the failing step is the last one started and Build returns its
\* error.
C5_FailStop ==
    /\ \A i, j \in DOMAIN trace : trace[i] = trace[j] => i = j
    /\ failed # "none" => Last(trace) = failed
    /\ (Returned /\ failed # "none") => err = failed

\* C6: when BindSources cannot expose a Source (MkdirAll, TouchFile or
\* BindMount fails), RunBuild is never started and Build returns the error
\* of BindSources.
C6_BindFailureIsFatal ==
    bindFail # "none" =>
        /\ ~InTrace("RunBuild")
        /\ pc \in {"defer", "returned"}
        /\ err = "BindSources"

C8_NetworkIsolation ==
    /\ InTrace("ConfigureNetworking") => network # "full"
    /\ InTrace("RunBuild") =>
        /\ network = "loopback"
        /\ InTrace("DropNetworking") /\ InTrace("ConfigureNetworking")
        /\ IndexOf("DropNetworking") < IndexOf("ConfigureNetworking")
        /\ IndexOf("ConfigureNetworking") < IndexOf("RunBuild")

\* C8 witness: RunBuild has started, with loopback networking only.
C8_Witness == InTrace("RunBuild") /\ network = "loopback"

\* C9: every Source that is bind-mounted in the sandbox has a cached file
\* whose checksum is the expected one.
C9_OnlySatisfiedSourcesBound == \A i \in binds : cache[i] = "valid"

\* C10: once FetchSources has run, it has visited every Source in list
\* order, has called Fetch on exactly the Sources that were not fetched, in
\* order, has returned no error, and Build has gone on to pman.Init.
C10_FetchLoopContinues ==
    InTrace("FetchSources") =>
        /\ visited = [i \in 1..Len(cache0) |-> i]
        /\ fetched = SelectSeq(visited, NotCachedAtStart)
        /\ failed # "FetchSources" /\ err # "FetchSources"
        /\ Last(trace) = "FetchSources" => pc = "Init"

\* C10 witness: a Fetch failed, a later Source was fetched all the same,
\* and pman.Init has started.
C10_Witness ==
    /\ InTrace("Init")
    /\ \E i \in fetchFailed : \E j \in Range(fetched) : j > i

\* C11: once FetchSources has run, Fetch was called on a Source if and only
\* if its cache file did not match the expected checksum, and on no Source
\* more than once; before FetchSources runs nothing is fetched.
C11_CacheHitMeansNoFetch ==
    /\ \A i, j \in DOMAIN fetched : fetched[i] = fetched[j] => i = j
    /\ ~InTrace("FetchSources") => fetched = <<>>
    /\ InTrace("FetchSources") =>
        \A i \in DOMAIN cache0 :
            (i \in Range(fetched)) <=> ~IsFetched(cache0[i])

\* C11 witness: FetchSources has run on a package with a Source that was
\* cached correctly, which was not fetched, and one that was not, which was.
C11_Witness ==
    /\ InTrace("FetchSources")
    /\ \E i \in DOMAIN cache0 : IsFetched(cache0[i]) /\ i \notin Range(fetched)
    /\ \E j \in DOMAIN cache0 : ~IsFetched(cache0[j]) /\ j \in Range(fetched)

C20_CopyAssetsFailFast ==
    InTrace("CopyAssets") =>
        LET paths == <<"package", "files", "comar", "component.xml">> \o
                     (IF pkgType = PackageTypeXML
                      THEN <<"actions.py">> ELSE <<>>)
        IN  /\ IsPrefix(copied, paths)
            /\ IsPrefix(copyTried, paths)
            /\ IsPrefix(copied, copyTried)
            /\ Len(copyTried) <= Len(copied) + 1
            /\ (failed = "CopyAssets") <=> (copied # paths)
            /\ (failed # "CopyAssets") => copyTried = paths

\* C20 witness: the third copy has failed; the first two paths are copied,
\* no later one was tried, and Build is about to return the error.
C20_Witness ==
    /\ pc = "defer" /\ err = "CopyAssets"
    /\ Len(copied) = 2 /\ Len(copyTried) = 3

\* C17 (as stated): the reaper is registered only once the overlay has been
\* composed, and no step has run while no reaper was registered.
C17_RegisteredAfterCompose ==
    /\ hookPc # "off" => (InTrace("ActivateRoot") /\ failed # "ActivateRoot")
    /\ trace # <<>> => hookPc # "off"

\* C17 (amended): the reaper and the interrupt hook are registered exactly
\* when CleanExisting has succeeded, before ActivateRoot composes the
\* overlay; every step from ActivateRoot on runs with the reaper
\* registered, and CleanExisting is the only step that runs without one.
C17_RegisteredAfterCleanExisting ==
    /\ (hookPc # "off") <=> (InTrace("CleanExisting") /\ failed # "CleanExisting")
    /\ pc = "ActivateRoot" => (hookPc # "off" /\ ~InTrace("ActivateRoot"))
    /\ Len(trace) >= 2 => hookPc # "off"

\* C17 witness: the reaper is registered and ActivateRoot has not started.
C17_Witness ==
    /\ pc = "ActivateRoot" /\ hookPc = "armed"
    /\ ~overlayMounted /\ trace = <<"CleanExisting">>

\* C18: when StartDBUS has run and Build has returned, or the interrupt hook
\* has ended the process, the service bus is not running.
C18_ServiceBusStopped ==
    (InTrace("StartDBUS") /\ (Returned \/ hookPc = "exited")) => ~dbus

\* ---------------------------------------------- NewBackingImage on its own
InitImg ==
    /\ BuildIdle
    /\ CmdIdle
    /\ name1 \in Names
    /\ name2 \in Names
    /\ img1 = NoImage
    /\ img2 = NoImage

\* Two BackingImages are constructed, one from each name.
Construct ==
    /\ img1 = NoImage
    /\ img1' = NewBackingImage(name1)
    /\ img2' = NewBackingImage(name2)
    /\ UNCHANGED <<name1, name2, cmdVars, hashUsed, copyTried, pkgType,
                   cache0, buildVars, fetchVars, overlayVars, dbus, network,
                   warned, copied, bindFail, reaperRuns, hookPc>>

NextImg == Construct

SpecImg == InitImg /\ [][NextImg]_vars

Constructed == img1 # NoImage
PathFields(img) == {img.ImagePath, img.ImagePathXZ, img.ImageURI, img.RootDir}
\* A name that is a single path element.
SimpleName(n) == "/" \notin Range(n) /\ n \notin {<<>>, <<".">>, <<".", ".">>}

\* C16 (as stated): equal names give equal BackingImages, and for any two
\* different names no path field of one image equals a path field of the
\* other.
C16_PathsInjective ==
    Constructed =>
        /\ name1 = name2 => img1 = img2
        /\ name1 # name2 => PathFields(img1) \cap PathFields(img2) = {}

\* C16 (amended): equal names give equal BackingImages, and for any two
\* different names that are each a single path element (not empty, without
\* a path separator, not "." or "..") no path field of one image equals a
\* path field of the other.
C16_PathsInjectiveSimpleNames ==
    Constructed =>
        /\ name1 = name2 => img1 = img2
        /\ (name1 # name2 /\ SimpleName(name1) /\ SimpleName(name2)) =>
               PathFields(img1) \cap PathFields(img2) = {}

\* C16 witness: images are constructed for "a" and for "a.img".
C16_Witness ==
    /\ Constructed
    /\ name1 = <<"a">> /\ name2 = <<"a", ".", "img">>
    /\ img1.ImagePath = ImagesDir \o <<"/", "a", ".", "img">>
    /\ img2.RootDir = ImageRootsDir \o <<"/", "a", ".", "img">>

\* --------------------------------------------- the build and update commands
ValidProfiles == <<"main-x86_64", "unstable-x86_64">>
DefaultProfile == "main-x86_64"

\* The strings a caller passes as -p flag and as positional argument.
ProfileInputs == {"main-x86_64", "unstable-x86_64", "bogus", " main-x86_64 "}
ArgInputs == {"package.yml", "pspec.xml", " unstable-x86_64 ", "bogus", "  "}
ArgLists == {<<>>} \cup {<<x>> : x \in ArgInputs} \cup {<<"package.yml", "extra">>}

\* strings.TrimSpace on the strings above.
TrimSpace(s) ==
    CASE s = " main-x86_64 " -> "main-x86_64"
      [] s = " unstable-x86_64 " -> "unstable-x86_64"
      [] s = "  " -> ""
      [] OTHER -> s

\* builder.IsValidProfile
IsValidProfile(p) == \E i \in DOMAIN ValidProfiles : ValidProfiles[i] = p

\* builder.EmitProfileError: what it writes to stderr.
EmitProfileError(p) ==
    [msg |-> "is not a known profile", profile |-> p,
     valid |-> ValidProfiles, default |-> DefaultProfile]

\* BackingImage.IsInstalled for the image of profile p.
IsInstalled(p) == p \in installedImages

\* The messages of the commands.
MsgNotInstalled(p) ==
    [msg |-> "Cannot find profile. Did you forget to run init?", profile |-> p]
MsgNotRoot == [msg |-> "You must be root to run init profiles"]
MsgLoadFailed == [msg |-> "Failed to load package"]
ErrRequireFilename == [msg |-> "Require a filename to build"]

InitCmd ==
    /\ BuildIdle
    /\ ImgIdle
    /\ command \in {"build", "update"}
    /\ profile \in ProfileInputs
    /\ args \in ArgLists
    /\ likelyArg \in {"", "package.yml", "pspec.xml"}
    /\ installedImages \in SUBSET Range(ValidProfiles)
    /\ euid \in {0, 1000}
    /\ parseResult \in {"error"} \cup PackageTypes
    /\ updateResult \in BOOLEAN
    /\ cmdPc = "start"
    /\ exitCode = "none"
    /\ stderr = <<>>
    /\ cmdLog = <<>>
    /\ updateCalled = FALSE
    /\ buildCalled = FALSE

\* buildPackage: the package path before and after strings.TrimSpace.
PkgPath == TrimSpace(IF Len(args) = 1 THEN args[1] ELSE likelyArg)

\* buildPackage, the RunE of the build command.  exitCode is 0 when it
\* returns nil and 1 when it returns an error.
BuildPackage ==
    /\ cmdPc = "start" /\ command = "build"
    /\ cmdPc' = "done"
    /\ IF ~IsValidProfile(profile)
       THEN /\ stderr' = <<EmitProfileError(profile)>>
            /\ exitCode' = 0
            /\ UNCHANGED cmdLog
       ELSE IF PkgPath = ""
       THEN /\ exitCode' = 1
            /\ stderr' = <<ErrRequireFilename>>
            /\ UNCHANGED cmdLog
       ELSE IF ~IsInstalled(profile)
       THEN /\ stderr' = <<MsgNotInstalled(profile)>>
            /\ exitCode' = 0
            /\ UNCHANGED cmdLog
       ELSE IF parseResult = "error"
       THEN /\ stderr' = <<MsgLoadFailed>>
            /\ exitCode' = 0
            /\ UNCHANGED cmdLog
       ELSE /\ cmdLog' = <<"Building package">> \o
                         (IF parseResult # PackageTypeYpkg
                          THEN <<"Full sandboxing is not possible with legacy format">>
                          ELSE <<>>)
            /\ exitCode' = 0
            /\ UNCHANGED stderr
    /\ UNCHANGED <<cmdIn, profile, updateCalled, buildCalled, imgVars,
                   hashUsed, copyTried, pkgType, cache0, buildVars,
                   fetchVars, overlayVars, dbus, network, warned, copied,
                   bindFail, reaperRuns, hookPc>>

\* updateProfile, the Run of the update command.  exitCode is 1 when it
\* calls os.Exit(1) and 0 when it returns.
UpdateProfile ==
    /\ cmdPc = "start" /\ command = "update"
    /\ cmdPc' = "done"
    /\ LET p == IF Len(args) = 1 THEN TrimSpace(args[1]) ELSE profile IN
       /\ profile' = p
       /\ IF ~IsValidProfile(p)
          THEN /\ stderr' = <<EmitProfileError(p)>>
               /\ exitCode' = 0
               /\ UNCHANGED updateCalled
          ELSE IF ~IsInstalled(p)
          THEN /\ stderr' = <<MsgNotInstalled(p)>>
               /\ exitCode' = 1
               /\ UNCHANGED updateCalled
          ELSE IF euid # 0
          THEN /\ stderr' = <<MsgNotRoot>>
               /\ exitCode' = 1
               /\ UNCHANGED updateCalled
          ELSE /\ updateCalled' = TRUE
               /\ exitCode' = IF updateResult THEN 0 ELSE 1
               /\ UNCHANGED stderr
    /\ UNCHANGED <<cmdIn, cmdLog, buildCalled, imgVars,
                   hashUsed, copyTried, pkgType, cache0, buildVars,
                   fetchVars, overlayVars, dbus, network, warned, copied,
                   bindFail, reaperRuns, hookPc>>

NextCmd == BuildPackage \/ UpdateProfile

SpecCmd == InitCmd /\ [][NextCmd]_vars

CmdDone == cmdPc = "done"
\* Nothing outside the command's own messages has happened.
NoMutation ==
    /\ ~updateCalled /\ ~buildCalled
    /\ pc = "idle" /\ trace = <<>> /\ ~overlayMounted /\ ~dirs

\* C12: when the profile is not a known one, the command emits the profile
\* error, reports a failure to its caller and mutates nothing.
C12_UnknownProfileFails ==
    (CmdDone /\ ~IsValidProfile(profile)) =>
        /\ stderr = <<EmitProfileError(profile)>>
        /\ exitCode # 0
        /\ NoMutation

\* C13: with a known profile whose image is not installed (and, for build,
\* a package path), the command names the init step, reports a failure to
\* its caller, creates no overlay and does not call Update.
C13_MissingImageFails ==
    (/\ CmdDone /\ IsValidProfile(profile) /\ ~IsInstalled(profile)
     /\ command = "build" => PkgPath # "") =>
        /\ stderr = <<MsgNotInstalled(profile)>>
        /\ exitCode # 0
        /\ NoMutation

\* C14: Update is called only for a known profile with an installed image
\* and effective user root, a build is started only as root, and a command
\* that gets as far as its privileged operation without being root fails
\* with the privilege error.
C14_PrivilegeFailFast ==
    CmdDone =>
        /\ updateCalled => (IsValidProfile(profile) /\ IsInstalled(profile)
                            /\ euid = 0)
        /\ buildCalled => euid = 0
        /\ (/\ euid # 0 /\ IsValidProfile(profile) /\ IsInstalled(profile)
            /\ command = "build" => (PkgPath # "" /\ parseResult # "error")) =>
               (exitCode # 0 /\ stderr = <<MsgNotRoot>> /\ NoMutation)

\* C15: the build command, given a known profile, an installed image and a
\* package file that parses as ypkg, calls Package.Build.
C15_BuildIsRun ==
    (/\ CmdDone /\ command = "build"
     /\ IsValidProfile(profile) /\ IsInstalled(profile)
     /\ PkgPath # "" /\ parseResult = PackageTypeYpkg) =>
        buildCalled

====
